---- MODULE Spec2Model ----
(***************************************************************************)
(* The scripting bridge of Zero-G-Engine: assembly/context.ts (host        *)
(* function table, current-entity cell, Vec3/Transform/Entity proxies and  *)
(* the caching self() accessor, followed in the same file by the flattened *)
(* EntityProxy variant) and the sample script assembly/mover.ts.           *)
(*                                                                         *)
(* f32 values are kept in fixed point, in thousandths (-2.0 is -2000).     *)
(* Objects live in a heap that only grows: a handle is the index of its    *)
(* object, so two handles are the same instance iff they are equal.        *)
(***************************************************************************)
EXTENDS Integers, Sequences, FiniteSets, TLC

VARIABLES
  currentEntityId,  \* context.ts:66   let currentEntityId: u32 = 0
  cache,            \* context.ts:146  let _self: Entity | null = null
  heap,             \* every Entity (or EntityProxy) constructed so far
  store,            \* the host's entity table behind the 18 host functions
  calls,            \* host-function invocations issued by the last operation
  ret,              \* value returned by the last operation (NoVal if void)
  op,               \* the last operation: its name and its arguments
  selfLog,          \* the most recent self() calls, oldest first (if traced)
  switched,         \* setCurrentEntity was called since the last self() call
  traced,           \* whether this run records its self() calls in selfLog
  writes,           \* number of script field writes so far (bounded)
  lifecycle         \* the mover's lifecycle calls so far (bounded)

vars == <<currentEntityId, cache, heap, store, calls, ret, op, selfLog,
          switched, traced, writes, lifecycle>>

----------------------------------------------------------------------------
(* Bounds of the model *)

MaxHandles == 3

MaxWrites == 1

MaxTicks == 2

(* Entity ids the host passes to setCurrentEntity; 0 is the default id and *)
(* 7 the id of the documented scenario.                                    *)
EntityIds == {0, 7}

Categories == {"position", "rotation", "scale"}

Axes == {"x", "y", "z"}

(* Values a script writes, and frame times the host passes, in thousandths *)
Values == {-1495}

Deltas == {500, 1000}

(* Every id the host can pass: the live entities and one u32, far from    *)
(* them, that names no entity of the host                                  *)
AnyIds == EntityIds \cup {2147483647}

Null == 0

NoVal == "void"

(* What a host getter answers for an id it does not know *)
HostFault == "fault"

----------------------------------------------------------------------------
(* Host function table: the 18 imports of the "context" module *)

HostFn(kind, cat, axis) == [kind |-> kind, cat |-> cat, axis |-> axis]

get_entity_position_x == HostFn("get", "position", "x")
set_entity_position_x == HostFn("set", "position", "x")
get_entity_position_y == HostFn("get", "position", "y")
set_entity_position_y == HostFn("set", "position", "y")
get_entity_position_z == HostFn("get", "position", "z")
set_entity_position_z == HostFn("set", "position", "z")
get_entity_rotation_x == HostFn("get", "rotation", "x")
set_entity_rotation_x == HostFn("set", "rotation", "x")
get_entity_rotation_y == HostFn("get", "rotation", "y")
set_entity_rotation_y == HostFn("set", "rotation", "y")
get_entity_rotation_z == HostFn("get", "rotation", "z")
set_entity_rotation_z == HostFn("set", "rotation", "z")
get_entity_scale_x == HostFn("get", "scale", "x")
set_entity_scale_x == HostFn("set", "scale", "x")
get_entity_scale_y == HostFn("get", "scale", "y")
set_entity_scale_y == HostFn("set", "scale", "y")
get_entity_scale_z == HostFn("get", "scale", "z")
set_entity_scale_z == HostFn("set", "scale", "z")

(* The host side: a faithful store, one cell per (entity, category, axis). *)
(* Every cell starts with a value of its own.                              *)
CatIndex(cat) == CASE cat = "position" -> 1 [] cat = "rotation" -> 2 [] OTHER -> 3

AxisIndex(axis) == CASE axis = "x" -> 1 [] axis = "y" -> 2 [] OTHER -> 3

HostInitial ==
  [e \in EntityIds |-> [c \in Categories |-> [a \in Axes |->
      100 * e + 10 * CatIndex(c) + AxisIndex(a)]]]

(* The guest machine: the module instance's globals, the heap, the host    *)
(* table and what the running operation has observed so far.               *)
Machine ==
  [cur |-> currentEntityId, self |-> cache, heap |-> heap, store |-> store,
   calls |-> <<>>, ret |-> NoVal, log |-> selfLog, sw |-> switched,
   traced |-> traced]

(* One invocation of a host getter / setter across the boundary. For an id *)
(* the host does not know the failure is the host's: the getter answers   *)
(* HostFault and the setter stores nothing.                                *)
CallGetter(m, fn, id) ==
  [m EXCEPT !.calls = Append(@, [fn |-> fn, id |-> id, val |-> NoVal]),
            !.ret = IF id \in DOMAIN m.store THEN m.store[id][fn.cat][fn.axis]
                    ELSE HostFault]

CallSetter(m, fn, id, val) ==
  [m EXCEPT !.calls = Append(@, [fn |-> fn, id |-> id, val |-> val]),
            !.store = IF id \in DOMAIN m.store
                      THEN [@ EXCEPT ![id][fn.cat][fn.axis] = val] ELSE @,
            !.ret = NoVal]

----------------------------------------------------------------------------
(* Vec3, Transform, Entity proxies *)

Vec3(id, getterX, setterX, getterY, setterY, getterZ, setterZ) ==
  [id |-> id,
   getterX |-> getterX, setterX |-> setterX,
   getterY |-> getterY, setterY |-> setterY,
   getterZ |-> getterZ, setterZ |-> setterZ]

(* A faulty getter that keeps the value of the read just made and answers  *)
(* the same read again without asking the host                             *)
Vec3Get_Cached(m, v, axis) ==
  LET g == CASE axis = "x" -> v.getterX [] axis = "y" -> v.getterY
             [] OTHER -> v.getterZ
  IN  IF m.calls # <<>> /\ m.calls[Len(m.calls)] = [fn |-> g, id |-> v.id, val |-> NoVal]
      THEN [m EXCEPT !.ret = m.store[v.id][g.cat][g.axis]]
      ELSE CallGetter(m, g, v.id)

Vec3Get(m, v, axis) ==
  CASE axis = "x" -> CallGetter(m, v.getterX, v.id)
    [] axis = "y" -> CallGetter(m, v.getterY, v.id)
    [] OTHER      -> CallGetter(m, v.getterZ, v.id)

(* A faulty setter whose y accessor was pasted from x *)
Vec3Set_PastedX(m, v, axis, val) ==
  CASE axis = "z" -> CallSetter(m, v.setterZ, v.id, val)
    [] OTHER      -> CallSetter(m, v.setterX, v.id, val)

Vec3Set(m, v, axis, val) ==
  CASE axis = "x" -> CallSetter(m, v.setterX, v.id, val)
    [] axis = "y" -> CallSetter(m, v.setterY, v.id, val)
    [] OTHER      -> CallSetter(m, v.setterZ, v.id, val)

(* Faulty wirings: position.y written through the x setter; scale built    *)
(* from the rotation functions.                                            *)
Transform_CrossWired(id) ==
  [position |-> Vec3(id,
      get_entity_position_x, set_entity_position_x,
      get_entity_position_y, set_entity_position_x,
      get_entity_position_z, set_entity_position_z),
   rotation |-> Vec3(id,
      get_entity_rotation_x, set_entity_rotation_x,
      get_entity_rotation_y, set_entity_rotation_y,
      get_entity_rotation_z, set_entity_rotation_z),
   scale |-> Vec3(id,
      get_entity_scale_x, set_entity_scale_x,
      get_entity_scale_y, set_entity_scale_y,
      get_entity_scale_z, set_entity_scale_z)]

Transform_ScaleAsRotation(id) ==
  [position |-> Vec3(id,
      get_entity_position_x, set_entity_position_x,
      get_entity_position_y, set_entity_position_y,
      get_entity_position_z, set_entity_position_z),
   rotation |-> Vec3(id,
      get_entity_rotation_x, set_entity_rotation_x,
      get_entity_rotation_y, set_entity_rotation_y,
      get_entity_rotation_z, set_entity_rotation_z),
   scale |-> Vec3(id,
      get_entity_rotation_x, set_entity_rotation_x,
      get_entity_rotation_y, set_entity_rotation_y,
      get_entity_rotation_z, set_entity_rotation_z)]

Transform(id) ==
  [position |-> Vec3(id,
      get_entity_position_x, set_entity_position_x,
      get_entity_position_y, set_entity_position_y,
      get_entity_position_z, set_entity_position_z),
   rotation |-> Vec3(id,
      get_entity_rotation_x, set_entity_rotation_x,
      get_entity_rotation_y, set_entity_rotation_y,
      get_entity_rotation_z, set_entity_rotation_z),
   scale |-> Vec3(id,
      get_entity_scale_x, set_entity_scale_x,
      get_entity_scale_y, set_entity_scale_y,
      get_entity_scale_z, set_entity_scale_z)]

(* A faulty Entity whose transform is bound to the default id *)
Entity_Unbound(id) == [id |-> id, transform |-> Transform(0)]

Entity(id) == [id |-> id, transform |-> Transform(id)]

(* h.transform.<cat>.<axis> read and written through handle h *)
FieldRead(m, h, cat, axis) == Vec3Get(m, m.heap[h].transform[cat], axis)

FieldWrite(m, h, cat, axis, val) ==
  Vec3Set(m, m.heap[h].transform[cat], axis, val)

----------------------------------------------------------------------------
(* self(): the cached accessor *)

(* A traced run keeps its three most recent self() calls: the current id  *)
(* at the call, the handle returned, whether the call constructed it, and  *)
(* whether setCurrentEntity was called since the self() call before.       *)
Remember(m, h, built) ==
  LET e == [cur |-> m.cur, h |-> h, built |-> built, sw |-> m.sw]
  IN  IF ~m.traced THEN m.log
      ELSE IF Len(m.log) < 3 THEN Append(m.log, e)
      ELSE Append(Tail(m.log), e)

(* Faulty variants of the rebuild test: one forgets the id comparison, one *)
(* forgets the cache.                                                      *)
SelfMustBuild_NullOnly(m) == m.self = Null

SelfMustBuild_Always(m) == TRUE

SelfMustBuild(m) == m.self = Null \/ m.heap[m.self].id # m.cur

(* A faulty self() that forgets the null test and hands out the empty cache *)
SelfOp_NoNullTest(m) ==
  LET build == m.self # Null /\ m.heap[m.self].id # m.cur
      hp    == IF build THEN Append(m.heap, Entity(m.cur)) ELSE m.heap
      h     == IF build THEN Len(hp) ELSE m.self
  IN  [m EXCEPT !.heap = hp, !.self = h, !.ret = h, !.sw = FALSE,
                !.log = Remember(m, h, build)]

(* A faulty self() that never invalidates: once built, the handle is kept  *)
(* for every current id                                                    *)
SelfOp_Sticky(m) ==
  LET build == m.self = Null
      hp    == IF build THEN Append(m.heap, Entity(m.cur)) ELSE m.heap
      h     == IF build THEN Len(hp) ELSE m.self
  IN  [m EXCEPT !.heap = hp, !.self = h, !.ret = h, !.sw = FALSE,
                !.log = Remember(m, h, build)]

(* A faulty self() that mutates the cached handle on a mismatch instead of *)
(* replacing it                                                            *)
SelfOp_Rebinding(m) ==
  LET build == m.self = Null
      hp    == IF build THEN Append(m.heap, Entity(m.cur))
               ELSE [m.heap EXCEPT ![m.self] = Entity(m.cur)]
      h     == IF build THEN Len(hp) ELSE m.self
  IN  [m EXCEPT !.heap = hp, !.self = h, !.ret = h, !.sw = FALSE,
                !.log = Remember(m, h, build)]

(* A faulty self() that touches the host when it builds: it reads a field  *)
(* of the new handle ahead of use                                          *)
SelfOp_Prefetching(m) ==
  LET build == m.self = Null \/ m.heap[m.self].id # m.cur
      hp    == IF build THEN Append(m.heap, Entity(m.cur)) ELSE m.heap
      h     == IF build THEN Len(hp) ELSE m.self
      s     == [m EXCEPT !.heap = hp, !.self = h, !.sw = FALSE,
                         !.log = Remember(m, h, build)]
      t     == IF build THEN CallGetter(s, get_entity_position_x, m.cur) ELSE s
  IN  [t EXCEPT !.ret = h]

(* A faulty self() that assigns where the code compares: on a mismatch it  *)
(* adopts the id of the cached handle as the current one                   *)
SelfOp_Adopting(m) ==
  LET adopt == m.self # Null /\ m.heap[m.self].id # m.cur
      build == m.self = Null
      hp    == IF build THEN Append(m.heap, Entity(m.cur)) ELSE m.heap
      h     == IF build THEN Len(hp) ELSE m.self
  IN  [m EXCEPT !.heap = hp, !.self = h, !.ret = h, !.sw = FALSE,
                !.cur = IF adopt THEN m.heap[m.self].id ELSE @,
                !.log = Remember(m, h, build)]

SelfOp(m) ==
  LET build == SelfMustBuild(m)
      hp    == IF build THEN Append(m.heap, Entity(m.cur)) ELSE m.heap
      h     == IF build THEN Len(hp) ELSE m.self
  IN  [m EXCEPT !.heap = hp, !.self = h, !.ret = h, !.sw = FALSE,
                !.log = Remember(m, h, build)]

(* Whether running self() on m fits in the bounded heap *)
Fits(m) == SelfMustBuild(m) => Len(m.heap) < MaxHandles

(* The record of an operation; h, cat, axis and val are what it was given *)
Op(name, h, cat, axis, val) ==
  [name |-> name, h |-> h, cat |-> cat, axis |-> axis, val |-> val]

Call(name) == Op(name, Null, NoVal, NoVal, NoVal)

Commit(m, o) ==
  /\ currentEntityId' = m.cur
  /\ cache' = m.self
  /\ heap' = m.heap
  /\ store' = m.store
  /\ calls' = m.calls
  /\ ret' = m.ret
  /\ selfLog' = m.log
  /\ switched' = m.sw
  /\ traced' = m.traced
  /\ op' = o

----------------------------------------------------------------------------
(* Operations *)

Loaded ==
  /\ currentEntityId = 0
  /\ cache = Null
  /\ heap = <<>>
  /\ store = HostInitial
  /\ calls = <<>>
  /\ ret = NoVal
  /\ op = Call("start")
  /\ selfLog = <<>>
  /\ switched = FALSE
  /\ writes = 0
  /\ lifecycle = <<>>

Init == Loaded /\ traced = FALSE

InitTraced == Loaded /\ traced = TRUE

(* A faulty setCurrentEntity that invalidates eagerly: it drops the cache   *)
setCurrentEntity_Eager(id) ==
  /\ Commit([Machine EXCEPT !.cur = id, !.sw = TRUE, !.self = Null],
            Op("setCurrentEntity", Null, NoVal, NoVal, id))
  /\ UNCHANGED <<writes, lifecycle>>

(* A faulty setCurrentEntity that validates: it keeps the old id when the  *)
(* host has no entity of the new one                                       *)
setCurrentEntity_Validating(id) ==
  /\ Commit([Machine EXCEPT !.cur = IF id \in DOMAIN store THEN id ELSE @,
                            !.sw = TRUE],
            Op("setCurrentEntity", Null, NoVal, NoVal, id))
  /\ UNCHANGED <<writes, lifecycle>>

setCurrentEntity(id) ==
  /\ Commit([Machine EXCEPT !.cur = id, !.sw = TRUE],
            Op("setCurrentEntity", Null, NoVal, NoVal, id))
  /\ UNCHANGED <<writes, lifecycle>>

self ==
  /\ Fits(Machine)
  /\ Commit(SelfOp(Machine), Call("self"))
  /\ UNCHANGED <<writes, lifecycle>>

(* A script reads / writes a field through a handle it got from self() *)
FieldGet(h, cat, axis) ==
  /\ Commit(FieldRead(Machine, h, cat, axis), Op("get", h, cat, axis, NoVal))
  /\ UNCHANGED <<writes, lifecycle>>

FieldSet(h, cat, axis, val) ==
  /\ writes < MaxWrites
  /\ Commit(FieldWrite(Machine, h, cat, axis, val), Op("set", h, cat, axis, val))
  /\ writes' = writes + 1
  /\ UNCHANGED lifecycle

----------------------------------------------------------------------------
(* The sample script, assembly/mover.ts *)

(* A faulty factor, 1.1 *)
Scaled_Factor(dt) == (dt * 1100) \div 1000

(* dt * 1.01 in fixed point *)
Scaled(dt) == (dt * 1010) \div 1000

(* self().transform.<cat>.<axis>, read, written and updated in place *)
SelfRead(m, cat, axis) ==
  LET s == SelfOp(m) IN FieldRead(s, s.ret, cat, axis)

SelfWrite(m, cat, axis, val) ==
  LET s == SelfOp(m) IN FieldWrite(s, s.ret, cat, axis, val)

SelfAdd(m, cat, axis, d) ==
  LET s == SelfOp(m)
      r == FieldRead(s, s.ret, cat, axis)
  IN  FieldWrite(r, s.ret, cat, axis, r.ret + d)

MoverInit(m) ==
  LET m1 == SelfWrite(m, "position", "x", -2000)
      m2 == SelfWrite(m1, "position", "y", 1000)
      m3 == SelfRead(m2, "position", "x")
      m4 == SelfRead(m3, "position", "y")
  IN  [m4 EXCEPT !.ret = NoVal]

MoverUpdate(m, dt) ==
  LET m1 == SelfRead(m, "position", "x")
      m2 == SelfRead(m1, "position", "y")
      m3 == SelfAdd(m2, "position", "x", Scaled(dt))
      m4 == SelfAdd(m3, "position", "y", Scaled(dt))
      m5 == SelfRead(m4, "position", "x")
      m6 == SelfRead(m5, "position", "y")
  IN  [m6 EXCEPT !.ret = NoVal]

(* A lifecycle call as the host made it: under which current id, with     *)
(* which frame time (0 for init, which takes none)                         *)
Tick(name, dt) == [name |-> name, id |-> currentEntityId, dt |-> dt]

init ==
  /\ Len(lifecycle) < MaxTicks
  /\ Fits(Machine)
  /\ Commit(MoverInit(Machine), Call("init"))
  /\ lifecycle' = Append(lifecycle, Tick("init", 0))
  /\ UNCHANGED writes

update(dt) ==
  /\ Len(lifecycle) < MaxTicks
  /\ Fits(Machine)
  /\ Commit(MoverUpdate(Machine, dt), Op("update", Null, NoVal, NoVal, dt))
  /\ lifecycle' = Append(lifecycle, Tick("update", dt))
  /\ UNCHANGED writes

(* The empty lifecycle functions context.ts itself exports *)
defaultInit ==
  /\ Commit(Machine, Call("defaultInit"))
  /\ UNCHANGED <<writes, lifecycle>>

defaultUpdate(deltaTime) ==
  /\ Commit(Machine, Op("defaultUpdate", Null, NoVal, NoVal, deltaTime))
  /\ UNCHANGED <<writes, lifecycle>>

----------------------------------------------------------------------------
(* The flattened variant at the end of context.ts: EntityProxy, no cache *)

EntityProxy(id) == [id |-> id]

ProxyGet(m, p, axis) ==
  CASE axis = "x" -> CallGetter(m, get_entity_position_x, p.id)
    [] axis = "y" -> CallGetter(m, get_entity_position_y, p.id)
    [] OTHER      -> CallGetter(m, get_entity_position_z, p.id)

ProxySet(m, p, axis, val) ==
  CASE axis = "x" -> CallSetter(m, set_entity_position_x, p.id, val)
    [] axis = "y" -> CallSetter(m, set_entity_position_y, p.id, val)
    [] OTHER      -> CallSetter(m, set_entity_position_z, p.id, val)

FlatSelfOp(m) ==
  LET hp == Append(m.heap, EntityProxy(m.cur))
  IN  [m EXCEPT !.heap = hp, !.ret = Len(hp), !.sw = FALSE,
                !.log = Remember(m, Len(hp), TRUE)]

flatSelf ==
  /\ Len(heap) < MaxHandles
  /\ Commit(FlatSelfOp(Machine), Call("self"))
  /\ UNCHANGED <<writes, lifecycle>>

flatGet(h, axis) ==
  /\ Commit(ProxyGet(Machine, heap[h], axis), Op("get", h, "position", axis, NoVal))
  /\ UNCHANGED <<writes, lifecycle>>

flatSet(h, axis, val) ==
  /\ writes < MaxWrites
  /\ Commit(ProxySet(Machine, heap[h], axis, val), Op("set", h, "position", axis, val))
  /\ writes' = writes + 1
  /\ UNCHANGED lifecycle

FlatInit(m) ==
  LET s == FlatSelfOp(m)
  IN  [ProxySet(s, s.heap[s.ret], "x", -2000) EXCEPT !.ret = NoVal]

FlatUpdate(m, dt) ==
  LET s == FlatSelfOp(m)
      r == ProxyGet(s, s.heap[s.ret], "x")
  IN  [ProxySet(r, s.heap[s.ret], "x", r.ret + Scaled(dt)) EXCEPT !.ret = NoVal]

flatInit ==
  /\ Len(lifecycle) < MaxTicks
  /\ Len(heap) < MaxHandles
  /\ Commit(FlatInit(Machine), Call("init"))
  /\ lifecycle' = Append(lifecycle, Tick("init", 0))
  /\ UNCHANGED writes

flatUpdate(dt) ==
  /\ Len(lifecycle) < MaxTicks
  /\ Len(heap) < MaxHandles
  /\ Commit(FlatUpdate(Machine, dt), Op("update", Null, NoVal, NoVal, dt))
  /\ lifecycle' = Append(lifecycle, Tick("update", dt))
  /\ UNCHANGED writes

----------------------------------------------------------------------------
(* Specifications *)

(* The bridge under an arbitrary script: the host switches the current     *)
(* entity, the script calls self() and reads and writes fields through any *)
(* handle it has obtained, in any order.                                   *)
Next ==
  \/ \E id \in EntityIds : setCurrentEntity(id)
  \/ self
  \/ \E h \in 1..Len(heap), cat \in Categories, axis \in Axes :
        FieldGet(h, cat, axis)
  \/ \E h \in 1..Len(heap), cat \in Categories, axis \in Axes, val \in Values :
        FieldSet(h, cat, axis, val)

Spec == Init /\ [][Next]_vars

(* The same bridge with its self() calls traced; the script's field        *)
(* accesses go to position.x.                                              *)
NextCache ==
  \/ \E id \in EntityIds : setCurrentEntity(id)
  \/ self
  \/ \E h \in 1..Len(heap) : FieldGet(h, "position", "x")
  \/ \E h \in 1..Len(heap), val \in Values : FieldSet(h, "position", "x", val)

SpecCache == InitTraced /\ [][NextCache]_vars

(* The bridge when the host also passes an id of no live entity *)
NextAnyId ==
  \/ \E id \in AnyIds : setCurrentEntity(id)
  \/ self
  \/ \E h \in 1..Len(heap), axis \in Axes : FieldGet(h, "position", axis)
  \/ \E h \in 1..Len(heap), axis \in Axes, val \in Values :
        FieldSet(h, "position", axis, val)

SpecAnyId == Init /\ [][NextAnyId]_vars

(* The host driving the lifecycle of the mover script *)
NextMover ==
  \/ \E id \in EntityIds : setCurrentEntity(id)
  \/ init
  \/ \E dt \in Deltas : update(dt)
  \/ defaultInit
  \/ \E dt \in Deltas : defaultUpdate(dt)

SpecMover == Init /\ [][NextMover]_vars

(* Everything a guest and its host do with the cached variant: switching,  *)
(* self(), field access, and both pairs of lifecycle functions             *)
NextGuest ==
  \/ \E id \in EntityIds : setCurrentEntity(id)
  \/ self
  \/ \E h \in 1..Len(heap) : FieldGet(h, "position", "x")
  \/ \E h \in 1..Len(heap), val \in Values : FieldSet(h, "position", "x", val)
  \/ init
  \/ \E dt \in Deltas : update(dt)
  \/ defaultInit
  \/ \E dt \in Deltas : defaultUpdate(dt)

SpecGuest == Init /\ [][NextGuest]_vars

(* The flattened variant under an arbitrary script and its own mover *)
NextFlat ==
  \/ \E id \in EntityIds : setCurrentEntity(id)
  \/ flatSelf
  \/ \E h \in 1..Len(heap), axis \in Axes : flatGet(h, axis)
  \/ \E h \in 1..Len(heap), axis \in Axes, val \in Values : flatSet(h, axis, val)
  \/ flatInit
  \/ \E dt \in Deltas : flatUpdate(dt)

SpecFlat == InitTraced /\ [][NextFlat]_vars

----------------------------------------------------------------------------
(* Properties *)

Last(q) == q[Len(q)]

(* The traced run is three self() calls, each made after a call of         *)
(* setCurrentEntity: the ids passed were selfLog[1].cur, [2].cur, [3].cur  *)
ThreeSwitchedCalls ==
  /\ Len(selfLog) = 3
  /\ \A i \in 1..3 : selfLog[i].sw

(* C1 as stated: for every sequence [e1, e2, e1] passed to                 *)
(* setCurrentEntity with a self() call after each, the first and the third *)
(* handle are distinct instances and both have id e1.                      *)
C1_AnySequence ==
  (ThreeSwitchedCalls /\ selfLog[1].cur = selfLog[3].cur) =>
     /\ selfLog[1].h # selfLog[3].h
     /\ heap[selfLog[1].h].id = selfLog[1].cur
     /\ heap[selfLog[3].h].id = selfLog[1].cur

(* C1 amended: the same for every sequence [e1, e2, e1] with e2 # e1; with *)
(* e2 = e1 nothing invalidates the cache and the handles are the same.     *)
C1_DistinctAfterSwitch ==
  (ThreeSwitchedCalls /\ selfLog[1].cur = selfLog[3].cur) =>
     /\ heap[selfLog[1].h].id = selfLog[1].cur
     /\ heap[selfLog[3].h].id = selfLog[1].cur
     /\ (selfLog[2].cur # selfLog[1].cur) => selfLog[1].h # selfLog[3].h
     /\ (selfLog[2].cur = selfLog[1].cur) => selfLog[1].h = selfLog[3].h

C1_Witness ==
  /\ ThreeSwitchedCalls
  /\ selfLog[1].cur = selfLog[3].cur
  /\ selfLog[2].cur # selfLog[1].cur
  /\ selfLog[1].h # selfLog[3].h
  /\ op.name = "self"

(* C2: a self() call with no setCurrentEntity call since the self() call   *)
(* before it returns the handle that call returned and constructs nothing. *)
(* It holds of the cached self() (SpecCache) and fails of the flattened    *)
(* self() later in the same file (SpecFlat), which constructs a proxy on   *)
(* every call.                                                             *)
C2_CacheHit ==
  \A i \in 2..Len(selfLog) :
     ~selfLog[i].sw => (selfLog[i].h = selfLog[i-1].h /\ ~selfLog[i].built)

(* Every traced self() call returned a handle of the heap, not null, whose *)
(* id is the id that was current at the call                               *)
C3_Returned ==
  \A i \in 1..Len(selfLog) :
     /\ selfLog[i].h # Null
     /\ selfLog[i].h \in DOMAIN heap
     /\ heap[selfLog[i].h].id = selfLog[i].cur

(* What one self() call does, from the state before it *)
C3_Step ==
  (op'.name = "self") =>
     /\ ret' = cache'
     /\ ret' # Null
     /\ heap'[ret'].id = currentEntityId
     /\ currentEntityId' = currentEntityId
     /\ Last(selfLog').cur = currentEntityId
     /\ Last(selfLog').h = ret'
     /\ Last(selfLog').built <=> (cache = Null \/ heap[cache].id # currentEntityId)
     /\ Last(selfLog').built => (heap' = Append(heap, Entity(currentEntityId))
                                 /\ ret' = Len(heap'))
     /\ ~Last(selfLog').built => (heap' = heap /\ ret' = cache)

(* C3: every self() call returns a handle, not null, whose id is the       *)
(* current id at the call; it constructs one exactly when the cache is     *)
(* empty or holds another id, and otherwise returns the cache untouched,   *)
(* so the self() call after a switch of the current id reflects it.        *)
C3_SelfFollowsCurrent == []C3_Returned /\ [][C3_Step]_vars

(* A self() call right after the host switched to another id rebuilt *)
C3_Witness ==
  /\ op.name = "self"
  /\ Len(selfLog) >= 2
  /\ Last(selfLog).sw
  /\ Last(selfLog).built
  /\ selfLog[Len(selfLog) - 1].cur # Last(selfLog).cur
  /\ heap[ret].id = currentEntityId

(* C8: when the first self() call comes before any setCurrentEntity call,  *)
(* it returns a handle, not null, bound to the default id 0, and every     *)
(* field access through that handle goes to the host with id 0.            *)
FirstCallUnswitched == Len(selfLog) = 1 /\ ~selfLog[1].sw

C8_DefaultEntity ==
  FirstCallUnswitched =>
     /\ selfLog[1].cur = 0
     /\ selfLog[1].h # Null
     /\ selfLog[1].h \in DOMAIN heap
     /\ heap[selfLog[1].h].id = 0
     /\ (op.name \in {"get", "set"} /\ op.h = selfLog[1].h) =>
           (Len(calls) = 1 /\ calls[1].id = 0)

C8_Witness ==
  /\ FirstCallUnswitched
  /\ op.name = "set"
  /\ op.h = selfLog[1].h
  /\ calls[1].id = 0
  /\ currentEntityId # 0

(* C4 as stated: every field access through a handle obtained from self()  *)
(* reaches the host with the id that is current at the time of the access. *)
C4_CurrentAtAccess ==
  op.name \in {"get", "set"} =>
     (Len(calls) = 1 /\ calls[1].id = currentEntityId)

(* C4 amended: a field access through a handle reaches the host with the   *)
(* id the handle was built for; that is the current id whenever the handle *)
(* is the one self() returned since the last setCurrentEntity call.        *)
C4_BoundAtSelf ==
  op.name \in {"get", "set"} =>
     /\ Len(calls) = 1
     /\ calls[1].id = heap[op.h].id
     /\ (op.h = cache /\ ~switched) => calls[1].id = currentEntityId

(* An access through the handle self() rebuilt after a switch *)
C4_Witness ==
  /\ op.name = "set"
  /\ op.h = cache
  /\ ~switched
  /\ Len(heap) >= 2
  /\ heap[1].id # currentEntityId
  /\ calls[1].id = currentEntityId

(* C5: whatever the state, writing v through self().transform.<cat>.<axis> *)
(* and reading the same field back through self() yields v; and the host   *)
(* table holds what a write stored and returns it to a read.               *)
C5_RoundTrip ==
  /\ \A cat \in Categories, axis \in Axes, v \in Values :
        Fits(Machine) =>
          SelfRead(SelfWrite(Machine, cat, axis, v), cat, axis).ret = v
  /\ op.name = "set" => store[heap[op.h].id][op.cat][op.axis] = op.val
  /\ op.name = "get" => ret = store[heap[op.h].id][op.cat][op.axis]

(* A read through self()'s handle returned a value a script wrote *)
C5_Witness ==
  /\ op.name = "get"
  /\ op.h = cache
  /\ ~switched
  /\ writes >= 1
  /\ ret = -1495
  /\ op.cat = "scale"
  /\ op.axis = "y"

(* The host invocations a field access issued *)
C6_Forwarded ==
  /\ op.name = "set" =>
        calls = <<[fn |-> HostFn("set", op.cat, op.axis),
                   id |-> heap[op.h].id, val |-> op.val]>>
  /\ op.name = "get" =>
        calls = <<[fn |-> HostFn("get", op.cat, op.axis),
                   id |-> heap[op.h].id, val |-> NoVal]>>

(* What a field access changes *)
C6_Effect ==
  /\ op'.name = "set" =>
        /\ store' = [store EXCEPT ![heap[op'.h].id][op'.cat][op'.axis] = op'.val]
        /\ \A e \in EntityIds, c \in Categories, a \in Axes :
              <<e, c, a>> # <<heap[op'.h].id, op'.cat, op'.axis>> =>
                 store'[e][c][a] = store[e][c][a]
        /\ <<heap', cache', currentEntityId'>> = <<heap, cache, currentEntityId>>
  /\ op'.name = "get" =>
        /\ ret' = store[heap[op'.h].id][op'.cat][op'.axis]
        /\ <<store', heap', cache', currentEntityId'>> =
             <<store, heap, cache, currentEntityId>>

(* C6: a field write (read) through a handle bound to e invokes exactly    *)
(* the host setter (getter) of the same category and axis, with (e, v)     *)
(* (with e); the write changes the cell (e, category, axis) of the host    *)
(* table and no other, and a read changes nothing.                         *)
C6_PureIndirection == []C6_Forwarded /\ [][C6_Effect]_vars

(* A write through a handle of another entity than the current one *)
C6_Witness ==
  /\ op.name = "set"
  /\ heap[op.h].id # currentEntityId
  /\ store[heap[op.h].id][op.cat][op.axis] = op.val
  /\ op.cat = "rotation"
  /\ op.axis = "z"

(* C7: every field read or write issues exactly one host invocation, and   *)
(* reading self().transform.position.x twice in a row issues exactly two   *)
(* invocations of get_entity_position_x and no other.                      *)
C7_OneCallPerAccess ==
  /\ op.name \in {"get", "set"} =>
        /\ Len(calls) = 1
        /\ calls[1].fn = HostFn(op.name, op.cat, op.axis)
  /\ Fits(Machine) =>
        LET g  == [fn |-> get_entity_position_x, id |-> currentEntityId,
                   val |-> NoVal]
            m1 == SelfRead(Machine, "position", "x")
            m2 == SelfRead(m1, "position", "x")
        IN  /\ m1.calls = <<g>>
            /\ m2.calls = <<g, g>>
            /\ m2.ret = store[currentEntityId]["position"]["x"]

C7_Witness ==
  /\ op.name = "get"
  /\ op.cat = "position"
  /\ op.axis = "x"
  /\ op.h = cache
  /\ ~switched
  /\ calls = <<[fn |-> get_entity_position_x, id |-> currentEntityId,
                val |-> NoVal]>>

(* C9: the host sets the current entity to 7 and calls init, then          *)
(* update(0.5): init leaves entity 7 at position.x = -2.0 and              *)
(* position.y = 1.0, and update at -1.495 and 1.505.                       *)
InitUnder7 == [name |-> "init", id |-> 7, dt |-> 0]

UpdateUnder7 == [name |-> "update", id |-> 7, dt |-> 500]

C9_MoverScenario ==
  /\ lifecycle = <<InitUnder7>> =>
        /\ store[7]["position"]["x"] = -2000
        /\ store[7]["position"]["y"] = 1000
  /\ lifecycle = <<InitUnder7, UpdateUnder7>> =>
        /\ store[7]["position"]["x"] = -1495
        /\ store[7]["position"]["y"] = 1505

C9_Witness ==
  /\ lifecycle = <<InitUnder7, UpdateUnder7>>
  /\ op.name = "update"
  /\ currentEntityId = 7
  /\ store[7]["position"]["x"] = -1495

(* Entity e binds each category to e's own id and to the host get/set     *)
(* pair of each axis of that category                                      *)
WellBound(e) ==
  /\ DOMAIN e.transform = Categories
  /\ \A c \in Categories :
        e.transform[c] =
          [id |-> e.id,
           getterX |-> HostFn("get", c, "x"), setterX |-> HostFn("set", c, "x"),
           getterY |-> HostFn("get", c, "y"), setterY |-> HostFn("set", c, "y"),
           getterZ |-> HostFn("get", c, "z"), setterZ |-> HostFn("set", c, "z")]

C10_WellBound ==
  /\ \A h \in DOMAIN heap : WellBound(heap[h])
  /\ op.name = "self" => ret \in DOMAIN heap
  /\ cache # Null => cache \in DOMAIN heap

C10_Stable == \A h \in DOMAIN heap : h \in DOMAIN heap' /\ heap'[h] = heap[h]

(* C10: in every reachable state every handle self() has returned binds   *)
(* position, rotation and scale to the handle's own id and to the host     *)
(* get/set pair of that category and axis, and no handle changes once      *)
(* built.                                                                  *)
C10_BindingInvariants == []C10_WellBound /\ [][C10_Stable]_vars

(* Handles of two entities, after a field write through one of them *)
C10_Witness ==
  /\ Len(heap) >= 3
  /\ heap[1].id # heap[2].id
  /\ op.name = "set"

(* What a setCurrentEntity call leaves behind *)
C11_Overwritten ==
  op.name = "setCurrentEntity" =>
     /\ currentEntityId = op.val
     /\ calls = <<>>
     /\ ret = NoVal

(* What a setCurrentEntity call changes: the current id and nothing of the *)
(* host or of the handles                                                  *)
C11_Effect ==
  op'.name = "setCurrentEntity" =>
     <<store', heap', cache'>> = <<store, heap, cache>>

(* A host invocation with an id the host does not know *)
UnknownIdCall == \E i \in 1..Len(calls) : calls[i].id \notin DOMAIN store

(* C11: setCurrentEntity(id) overwrites currentEntityId with any u32 id,    *)
(* live or not, in every state, and invokes no host function; an id of no  *)
(* live entity reaches the host only in a later field access.              *)
C11_NoValidation ==
  /\ [](C11_Overwritten)
  /\ [](\A id \in AnyIds : ENABLED setCurrentEntity(id))
  /\ [](UnknownIdCall => op.name \in {"get", "set"})
  /\ [][C11_Effect]_vars

(* The host switched to the id of no live entity *)
C11_Witness ==
  /\ op.name = "setCurrentEntity"
  /\ op.val = 2147483647
  /\ currentEntityId = 2147483647
  /\ currentEntityId \notin DOMAIN store
  /\ cache # Null

(* The unknown id surfaced: a read through a handle built under it *)
C11_Surfaced ==
  /\ op.name = "get"
  /\ UnknownIdCall
  /\ ret = HostFault

(* A step of any operation but setCurrentEntity keeps the current id *)
C12_Step ==
  op'.name # "setCurrentEntity" => currentEntityId' = currentEntityId

(* C12: currentEntityId is changed only by setCurrentEntity; self(), field *)
(* reads and writes, init() and update(dt), the default ones and the mover *)
(* script's, leave it unchanged.                                           *)
C12_OnlySetCurrentEntity == [][C12_Step]_vars

(* The mover's update ran under the id the host had set, which is still    *)
(* the current one                                                         *)
C12_Witness ==
  /\ op.name = "update"
  /\ Last(lifecycle).id = 7
  /\ currentEntityId = 7

(* What a self() call leaves behind: no host invocation on record *)
C13_NoCalls == op.name = "self" => calls = <<>>

(* What a self() call would do in this state: invoke nothing, leave every  *)
(* host value as it is                                                     *)
C13_NoEffect ==
  Fits(Machine) =>
     /\ SelfOp(Machine).calls = <<>>
     /\ SelfOp(Machine).store = store

(* C13: self() issues no host invocation and changes no host value, on a   *)
(* cache hit and on a build alike; host invocations happen only on field   *)
(* access.                                                                 *)
C13_SelfIsLocal ==
  /\ C13_NoCalls
  /\ C13_NoEffect
  /\ calls # <<>> => op.name \in {"get", "set"}

(* A self() call that built a fresh handle after one that hit the cache,   *)
(* with a host value a guest had written still in place                    *)
C13_Witness ==
  /\ op.name = "self"
  /\ Len(selfLog) >= 2
  /\ Last(selfLog).built
  /\ ~selfLog[Len(selfLog) - 1].built
  /\ \E e \in EntityIds : store[e] # HostInitial[e]

(* Every handle a traced self() call returned still carries the id that    *)
(* was current at that call, and an access through it goes to that entity  *)
C14_KeepsId ==
  \A i \in DOMAIN selfLog :
     /\ heap[selfLog[i].h].id = selfLog[i].cur
     /\ (op.name \in {"get", "set"} /\ op.h = selfLog[i].h) =>
           (Len(calls) = 1 /\ calls[1].id = selfLog[i].cur)

(* What a self() call would do to the handles that exist: nothing; a       *)
(* rebuild adds one and makes it the cache                                 *)
C14_Untouched ==
  Fits(Machine) =>
     LET s == SelfOp(Machine)
     IN  /\ \A h \in DOMAIN heap : s.heap[h] = heap[h]
         /\ SelfMustBuild(Machine) =>
               (s.self = Len(heap) + 1 /\ s.self \notin DOMAIN heap)

(* C14: the cache is replaced, never mutated: a handle obtained from       *)
(* self() under e1 keeps id e1 and keeps forwarding to entity e1 after any *)
(* later setCurrentEntity and self() calls; a rebuild stores a new handle  *)
(* and does not alter the old one.                                         *)
C14_ReplacedNotMutated == C14_KeepsId /\ C14_Untouched

(* A read through a handle that a later self() call replaced in the cache: *)
(* it went to the entity of the old id, not to the current one             *)
C14_Witness ==
  /\ op.name = "get"
  /\ Len(selfLog) >= 2
  /\ op.h = selfLog[1].h
  /\ Last(selfLog).h = cache
  /\ Last(selfLog).built
  /\ op.h # cache
  /\ calls[1].id = selfLog[1].cur
  /\ calls[1].id # currentEntityId

(* Two self() calls in a row under the same id return the same instance,   *)
(* whatever setCurrentEntity calls came between them                       *)
C15_SameIdSameHandle ==
  \A i \in 2..Len(selfLog) :
     selfLog[i].cur = selfLog[i-1].cur =>
        (selfLog[i].h = selfLog[i-1].h /\ ~selfLog[i].built)

(* The cache is what the last self() call returned *)
C15_CacheIsLastResult ==
  cache = IF selfLog = <<>> THEN Null ELSE Last(selfLog).h

(* A setCurrentEntity step keeps the cache and every handle *)
C15_SwitchKeepsCache ==
  op'.name = "setCurrentEntity" => (cache' = cache /\ heap' = heap)

(* C15: invalidation is lazy and happens only inside self():               *)
(* setCurrentEntity never clears or rebuilds the cache, so after           *)
(* setCurrentEntity(e1), self(), setCurrentEntity(e2), setCurrentEntity(e1)*)
(* or a repeated setCurrentEntity(e1), self() returns the same instance.   *)
C15_LazyInvalidation ==
  /\ [](C15_SameIdSameHandle /\ C15_CacheIsLastResult)
  /\ [][C15_SwitchKeepsCache]_vars

(* self() after the host switched since the previous self() call, back to  *)
(* or again to the same id: a cache hit on the same instance               *)
C15_Witness ==
  /\ op.name = "self"
  /\ Len(selfLog) >= 2
  /\ Last(selfLog).sw
  /\ Last(selfLog).cur = selfLog[Len(selfLog) - 1].cur
  /\ Last(selfLog).h = selfLog[Len(selfLog) - 1].h
  /\ ~Last(selfLog).built
  /\ Len(heap) = 1

(* The host invocations of a mover call: position.x and position.y of the  *)
(* current entity, nothing else                                            *)
C16_OwnPosition ==
  op.name \in {"init", "update"} =>
     /\ Len(calls) = IF op.name = "init" THEN 4 ELSE 8
     /\ \A i \in DOMAIN calls :
           /\ calls[i].id = currentEntityId
           /\ calls[i].fn.cat = "position"
           /\ calls[i].fn.axis \in {"x", "y"}

(* Host values that a mover call under the current id must leave alone *)
Outside(e, c, a) == e # currentEntityId \/ c # "position" \/ a = "z"

(* What the mover's init and update would do in this state: change nothing *)
(* outside position.x and position.y of the current entity                 *)
C16_Frame ==
  Fits(Machine) =>
     \A m \in {MoverInit(Machine)} \cup {MoverUpdate(Machine, dt) : dt \in Deltas} :
       \A e \in EntityIds, c \in Categories, a \in Axes :
          Outside(e, c, a) => m.store[e][c][a] = store[e][c][a]

(* C16: when the host multiplexes several entities through one module      *)
(* instance, each call of the mover's init/update reads and writes only    *)
(* position.x and position.y of the entity current during that call;       *)
(* position.z, rotation and scale of it and every channel of every other   *)
(* entity are left unchanged.                                              *)
C16_Multiplexed == C16_OwnPosition /\ C16_Frame

(* Two mover calls under two different entities: both entities moved in x  *)
(* and y, and everything else of both is as the host created it            *)
C16_Witness ==
  /\ op.name = "update"
  /\ Len(lifecycle) = 2
  /\ lifecycle[1].id # lifecycle[2].id
  /\ \A e \in EntityIds, c \in Categories, a \in Axes :
        (store[e][c][a] # HostInitial[e][c][a]) <=>
           (c = "position" /\ a \in {"x", "y"})

====
